---- MODULE Spec2Model ----
(***************************************************************************)
(* A model of the label-budget loop and the numeric helpers of             *)
(* Med-AL-SSL (src/utils.py).                                              *)
(*                                                                         *)
(* Arrays are TLA+ sequences: the Python position p (0-based) of an array  *)
(* is the index p + 1 of the sequence.  Positions handed to the code       *)
(* (samples_indices) and base-dataset indices (the entries of              *)
(* labeled_indices / unlabeled_indices, the subscripts of targets) keep    *)
(* their 0-based Python values.                                            *)
(***************************************************************************)
EXTENDS Integers, Sequences, FiniteSets, TLC

\* ------------------------------------------------------------------ bounds
NumSamples == 3      \* Cifar10Dataset: size of the base dataset, base indices 0..NumSamples-1
NumIndices == 4      \* the label-budget loop: the samples are the base indices 0..NumIndices-1
MaxRounds == 2       \* perform_sampling rounds followed in one run
MaxVal == 2          \* AverageMeter.update: val ranges over -1..MaxVal
MaxN == 2            \* AverageMeter.update: n ranges over 1..MaxN
MaxUpdates == 3      \* updates followed since __init__ / reset
MaxBatch == 3        \* NTXent: batch_size ranges over 1..MaxBatch
EmbDim == 3          \* NTXent.forward: embeddings are unit basis vectors e_0..e_(EmbDim-1)
MaxK == 2            \* accuracy: the ranks k in topk range over 1..MaxK

Samples == 0 .. (NumSamples - 1)
Indices == 0 .. (NumIndices - 1)
\* The values of dataset_class.add_labeled_num: none, one or two samples a round.
AddNums == {0, 1, 2}
\* Two classes: the pseudo-label loop only compares labels for equality.
Classes == {0, 1}

\* ----------------------------------------------------------------- helpers
Range(s) == {s[i] : i \in DOMAIN s}

IsInjective(s) == \A i, j \in DOMAIN s : i # j => s[i] # s[j]

SeqsUpTo(S, n) == UNION {[1 .. k -> S] : k \in 0 .. n}

Min(a, b) == IF a < b THEN a ELSE b

\* arr[mask] of numpy with a boolean mask array: the entries of arr whose mask
\* entry is TRUE, in the order they have in arr.
BooleanIndex(arr, mask) ==
    LET F[i \in 0 .. Len(arr)] ==
            IF i = 0 THEN <<>>
            ELSE IF mask[i] THEN Append(F[i - 1], arr[i]) ELSE F[i - 1]
    IN  F[Len(arr)]

\* ------------------------------------------------------------------ state
VARIABLES
    strategy,                   \* args.weak_supervision_strategy
    add_labeled_num,            \* dataset_class.add_labeled_num
    labeled_indices,            \* the caller's labeled_indices (returned by each round)
    unlabeled_indices,          \* the caller's unlabeled_indices
    labeled_dataset_indices,    \* labeled_dataset.indices
    unlabeled_dataset_indices,  \* unlabeled_dataset.indices
    targets,                    \* labeled_dataset.targets, subscripted by base index
    test_dataset,               \* test_dataset: the targets of its samples
    loaders,                    \* the dataset each of the three loaders reads
    pc,                         \* "loop" | "raised": the uncaught exception ends the run
    rounds,                     \* rounds that returned
    initial,                    \* history: the index arrays at the start
    round_log,                  \* history: the last round's inputs, calls and pre-state
    meter,                      \* an AverageMeter: val, avg, sum, count
    meter_hist,                 \* history: the (val, n) updates since __init__ / reset
    ntx,                        \* an NTXent module: pc, batch_size, mask
    forward_out,                \* what the last NTXent.forward call computed
    acc_in,                     \* accuracy's arguments: output, target, topk
    acc_out,                    \* what accuracy computed: pred, correct, res
    cifar_in,                   \* Cifar10Dataset: base targets, labeled_ratio, add_labeled_ratio
    cifar_out                   \* Cifar10Dataset: add_labeled_num and what get_dataset returned

sampling_vars == <<strategy, add_labeled_num, labeled_indices, unlabeled_indices,
                   labeled_dataset_indices, unlabeled_dataset_indices, targets,
                   test_dataset, loaders, pc, rounds, initial, round_log>>
meter_vars == <<meter, meter_hist>>
ntx_vars == <<ntx, forward_out>>
acc_vars == <<acc_in, acc_out>>
cifar_vars == <<cifar_in, cifar_out>>
vars == <<sampling_vars, meter_vars, ntx_vars, acc_vars, cifar_vars>>

Strategies == {"active_learning", "semi_supervised", "random_sampling", "fully_supervised"}

\* -------------------------------------------------- stratified_random_sampling
\* rng.choice(n, size=number, replace=False) with n = unlabeled_indices.shape[0]:
\* raises ValueError when number > n; otherwise returns `number` positions of
\* 0..n-1 drawn without replacement, in any order (every such array is a possible
\* outcome).
stratified_random_sampling_clamped(unlabeled, number) ==
    [raises   |-> FALSE,
     outcomes |-> {s \in [1 .. Min(number, Len(unlabeled)) -> 0 .. (Len(unlabeled) - 1)] :
                      IsInjective(s)}]

stratified_random_sampling_with_replacement(unlabeled, number) ==
    [raises   |-> number > 0 /\ Len(unlabeled) = 0,
     outcomes |-> [1 .. number -> 0 .. (Len(unlabeled) - 1)]]

stratified_random_sampling(unlabeled, number) ==
    [raises   |-> number > Len(unlabeled),
     outcomes |-> IF number > Len(unlabeled) THEN {}
                  ELSE {s \in [1 .. number -> 0 .. (Len(unlabeled) - 1)] : IsInjective(s)}]

\* ---------------------------------------------------------- postprocess_indices
\* unlabeled_mask = ones(len(unlabeled_indices)); unlabeled_mask[samples_indices] = 0
unlabeled_mask(unlabeled, samples_indices) ==
    [i \in 1 .. Len(unlabeled) |-> (i - 1) \notin Range(samples_indices)]

InvertMask(mask) == [i \in DOMAIN mask |-> ~mask[i]]

\* arr[mask] with arr a numpy array and mask a torch bool tensor.  numpy first
\* asks an index that is not an ndarray for __index__, and torch answers for a
\* tensor of exactly one element (bool included): a one-element mask is the
\* integer 0 (False) or 1 (True), and the integer is bounds-checked (IndexError).
\* The scalar arr[0] it then yields becomes a one-element array in np.hstack.
\* A mask of any other length fails __index__ and is used as a boolean mask.
IndexByTensor(arr, mask) ==
    IF Len(mask) = 1
    THEN LET i == IF mask[1] THEN 1 ELSE 0
         IN  IF i >= Len(arr) THEN [raises |-> TRUE, value |-> <<>>]
             ELSE [raises |-> FALSE, value |-> <<arr[i + 1]>>]
    ELSE [raises |-> FALSE, value |-> BooleanIndex(arr, mask)]

\* labeled_indices = np.hstack([labeled_indices, unlabeled_indices[~unlabeled_mask]])
\* unlabeled_indices = unlabeled_indices[unlabeled_mask]
\* Either subscript may raise; nothing is assigned outside the function before.
postprocess_indices(labeled, unlabeled, samples_indices) ==
    LET mask == unlabeled_mask(unlabeled, samples_indices)
        moved == IndexByTensor(unlabeled, InvertMask(mask))
        kept == IndexByTensor(unlabeled, mask)
    IN  IF moved.raises \/ kept.raises
        THEN [raises |-> TRUE, labeled_indices |-> labeled, unlabeled_indices |-> unlabeled]
        ELSE [raises |-> FALSE,
              labeled_indices   |-> labeled \o moved.value,
              unlabeled_indices |-> kept.value]

\* --------------------------------------------- the pseudo-label loop (semi_supervised)
\* for i, j in enumerate(samples_indices):
\*     if labeled_dataset.targets[j] == samples_targets[i]: pseudo_labels_acc[i] = 1
\*     else: labeled_dataset.targets[j] = samples_targets[i]
\* j is the entry of samples_indices itself: it subscripts targets directly.
WriteTarget(tg, j, label) ==
    IF tg[j] = label THEN tg ELSE [tg EXCEPT ![j] = label]

write_pseudo_labels(tg, samples_indices, samples_targets) ==
    LET F[i \in 0 .. Len(samples_indices)] ==
            IF i = 0 THEN tg
            ELSE WriteTarget(F[i - 1], samples_indices[i], samples_targets[i])
    IN  F[Len(samples_indices)]

\* ------------------------------------------------------------------- samplers
\* uncertainty_sampler.get_samples / pseudo_labeler.get_samples are collaborators:
\* any array of at most `number` positions of unlabeled_indices, in any order,
\* repeats allowed.
SamplerOutputs(unlabeled, number) ==
    IF Len(unlabeled) = 0 THEN {<<>>}
    ELSE SeqsUpTo(0 .. (Len(unlabeled) - 1), number)

Call(sampler, model, number) == [sampler |-> sampler, model |-> model, number |-> number]

\* The loaders create_loaders builds: each reads its dataset when iterated.
Loaders == [train_loader     |-> "labeled_dataset",
            unlabeled_loader |-> "unlabeled_dataset",
            val_loader       |-> "test_dataset"]

\* len(dataset) of a WeaklySupervisedDataset: the length of its index array.
DatasetLen(indices) == Len(indices)

\* DataLoader(dataset, shuffle=True) builds a RandomSampler over the dataset,
\* whose __init__ raises ValueError ("num_samples should be a positive integer
\* value") when the dataset has no sample.
DataLoaderRaises(n) == n <= 0

\* The three DataLoader constructions of create_loaders, in order: the first
\* empty dataset raises.
create_loaders_raises(new_labeled, new_unlabeled) ==
    \/ DataLoaderRaises(DatasetLen(new_labeled))
    \/ DataLoaderRaises(DatasetLen(new_unlabeled))
    \/ DataLoaderRaises(Len(test_dataset))

create_loaders_skips_unlabeled(new_labeled, new_unlabeled) ==
    /\ labeled_dataset_indices' = new_labeled
    /\ unlabeled_dataset_indices' = unlabeled_dataset_indices
    /\ loaders' = IF create_loaders_raises(new_labeled, new_unlabeled) THEN loaders ELSE Loaders
    /\ UNCHANGED test_dataset

\* create_loaders: the datasets' index arrays are replaced by the new ones, then
\* three loaders are built over labeled_dataset, unlabeled_dataset and
\* test_dataset; test_dataset is only read.  When a DataLoader raises, the index
\* arrays are already written and the caller keeps the loaders it had.
create_loaders(new_labeled, new_unlabeled) ==
    /\ labeled_dataset_indices' = new_labeled
    /\ unlabeled_dataset_indices' = new_unlabeled
    /\ loaders' = IF create_loaders_raises(new_labeled, new_unlabeled) THEN loaders ELSE Loaders
    /\ UNCHANGED test_dataset

\* The branch of perform_sampling that args.weak_supervision_strategy selects
\* (if / elif / else).
Branch(s) ==
    IF s = "active_learning" THEN "active_learning"
    ELSE IF s = "semi_supervised" THEN "semi_supervised"
    ELSE "random"

\* The selection calls each branch makes, with the model and the number it passes.
ActiveCalls(number) == <<Call("uncertainty_sampler", "model", number)>>
SemiCalls_current_model(number) == <<Call("pseudo_labeler", "model", number)>>
SemiCalls(number) == <<Call("pseudo_labeler", "best_model", number)>>
RandomCalls(number) == <<Call("stratified_random_sampling", "none", number)>>

\* `new` holds perform_sampling's local labeled_indices / unlabeled_indices when
\* the round ended.
Log(calls, samples_indices, samples_targets, new, outcome) ==
    [calls |-> calls,
     samples_indices |-> samples_indices, samples_targets |-> samples_targets,
     labeled_before |-> labeled_indices, unlabeled_before |-> unlabeled_indices,
     labeled_after |-> new.labeled_indices, unlabeled_after |-> new.unlabeled_indices,
     labeled_dataset_before |-> labeled_dataset_indices,
     unlabeled_dataset_before |-> unlabeled_dataset_indices,
     targets_before |-> targets, test_dataset_before |-> test_dataset,
     rounds_before |-> rounds, outcome |-> outcome]

CanRun == pc = "loop" /\ rounds < MaxRounds

\* create_loaders returned: the round returns the loaders and the new arrays.
Returned(new) ==
    /\ labeled_indices' = new.labeled_indices
    /\ unlabeled_indices' = new.unlabeled_indices
    /\ create_loaders(new.labeled_indices, new.unlabeled_indices)
    /\ rounds' = rounds + 1
    /\ UNCHANGED <<strategy, add_labeled_num, pc, initial, meter_vars, ntx_vars, acc_vars,
                   cifar_vars>>

\* create_loaders raised: the ValueError is not caught in perform_sampling, the
\* caller gets nothing back and keeps its arrays; what was written before the
\* DataLoader call (the datasets' index arrays, the pseudo-labels) stays written.
CreateLoadersRaised(new) ==
    /\ create_loaders(new.labeled_indices, new.unlabeled_indices)
    /\ pc' = "raised"
    /\ UNCHANGED <<strategy, add_labeled_num, labeled_indices, unlabeled_indices, rounds,
                   initial, meter_vars, ntx_vars, acc_vars, cifar_vars>>

\* postprocess_indices raised: the IndexError is not caught in perform_sampling;
\* nothing was written before it.
PostprocessRaised ==
    /\ pc' = "raised"
    /\ UNCHANGED <<strategy, add_labeled_num, labeled_indices, unlabeled_indices,
                   labeled_dataset_indices, unlabeled_dataset_indices, targets,
                   test_dataset, loaders, rounds, initial, meter_vars, ntx_vars, acc_vars,
                   cifar_vars>>

\* What every branch does with the samples it got: postprocess_indices, the
\* branch's writes to labeled_dataset.targets (new_targets), create_loaders,
\* then the return.
AfterSampling(calls, samples_indices, samples_targets, new_targets) ==
    LET new == postprocess_indices(labeled_indices, unlabeled_indices, samples_indices)
    IN  IF new.raises
        THEN /\ PostprocessRaised
             /\ round_log' = Log(calls, samples_indices, samples_targets, new,
                                 "raised_in_postprocess_indices")
        ELSE /\ targets' = new_targets
             /\ IF create_loaders_raises(new.labeled_indices, new.unlabeled_indices)
                THEN /\ CreateLoadersRaised(new)
                     /\ round_log' = Log(calls, samples_indices, samples_targets, new,
                                         "raised_in_create_loaders")
                ELSE /\ Returned(new)
                     /\ round_log' = Log(calls, samples_indices, samples_targets, new,
                                         "returned")

\* ------------------------------------------------------------ perform_sampling
PerformSamplingActive ==
    /\ CanRun
    /\ Branch(strategy) = "active_learning"
    /\ \E samples_indices \in SamplerOutputs(unlabeled_indices, add_labeled_num) :
          AfterSampling(ActiveCalls(add_labeled_num), samples_indices, <<>>, targets)

\* The pseudo-labels are written after postprocess_indices and before
\* create_loaders.
\* The printed pseudo-label accuracy (np.sum(...) / samples_indices.shape[0]) is
\* a numpy division: with no sample it is nan, not an exception.
PerformSamplingSemi ==
    /\ CanRun
    /\ Branch(strategy) = "semi_supervised"
    /\ \E samples_indices \in SamplerOutputs(unlabeled_indices, add_labeled_num) :
       \E samples_targets \in [1 .. Len(samples_indices) -> Classes] :
          AfterSampling(SemiCalls(add_labeled_num), samples_indices, samples_targets,
                        write_pseudo_labels(targets, samples_indices, samples_targets))

PerformSamplingRandom ==
    /\ CanRun
    /\ Branch(strategy) = "random"
    /\ ~stratified_random_sampling(unlabeled_indices, add_labeled_num).raises
    /\ \E samples_indices \in stratified_random_sampling(unlabeled_indices, add_labeled_num).outcomes :
          AfterSampling(RandomCalls(add_labeled_num), samples_indices, <<>>, targets)

\* The ValueError of rng.choice is not caught anywhere in perform_sampling.
PerformSamplingRandomRaises ==
    /\ CanRun
    /\ Branch(strategy) = "random"
    /\ stratified_random_sampling(unlabeled_indices, add_labeled_num).raises
    /\ pc' = "raised"
    /\ round_log' = Log(RandomCalls(add_labeled_num), <<>>, <<>>,
                        [labeled_indices |-> labeled_indices,
                         unlabeled_indices |-> unlabeled_indices], "raised")
    /\ UNCHANGED <<strategy, add_labeled_num, labeled_indices, unlabeled_indices,
                   labeled_dataset_indices, unlabeled_dataset_indices, targets,
                   test_dataset, loaders, rounds, initial, meter_vars, ntx_vars, acc_vars,
                   cifar_vars>>

\* ------------------------------------------------------------------- Init
NoLog == [calls |-> <<>>, samples_indices |-> <<>>, samples_targets |-> <<>>,
          labeled_before |-> <<>>, unlabeled_before |-> <<>>,
          labeled_after |-> <<>>, unlabeled_after |-> <<>>,
          labeled_dataset_before |-> <<>>, unlabeled_dataset_before |-> <<>>,
          targets_before |-> <<>>, test_dataset_before |-> <<>>,
          rounds_before |-> 0, outcome |-> "none"]

MeterInit ==
    /\ meter = [val |-> 0, avg |-> [num |-> 0, den |-> 1], sum |-> 0, count |-> 0]
    /\ meter_hist = <<>>

NoForward == [outcome |-> "none"]

NTXentIdle ==
    /\ ntx = [pc |-> "new"]
    /\ forward_out = NoForward

NoAccuracy == [outcome |-> "none"]

AccuracyIdle ==
    /\ acc_in = [output |-> <<>>, target |-> <<>>, topk |-> <<>>, layout |-> "contiguous"]
    /\ acc_out = NoAccuracy

NoDataset == [outcome |-> "none"]

CifarIdle ==
    /\ cifar_in = [targets |-> <<>>]
    /\ cifar_out = NoDataset

\* The test split: two samples, by their targets.  The loaders the caller built
\* with create_loaders before the first round.
TestDatasetInit ==
    /\ test_dataset = <<0, 1>>
    /\ loaders = Loaders

\* The split of the base dataset: duplicate-free, disjoint index arrays in any
\* order (train_test_split shuffles); samples may belong to neither array.
\* Neither array is empty: the caller built the loaders it passes in with
\* create_loaders over these arrays.
\* The base dataset's targets: sample i has class i mod 2.
Init ==
    /\ strategy \in Strategies
    /\ add_labeled_num \in AddNums
    /\ \E split \in {s \in SeqsUpTo(Indices, NumIndices) : IsInjective(s)} :
       \E k \in 1 .. (Len(split) - 1) :
          /\ labeled_indices = SubSeq(split, 1, k)
          /\ unlabeled_indices = SubSeq(split, k + 1, Len(split))
    /\ labeled_dataset_indices = labeled_indices
    /\ unlabeled_dataset_indices = unlabeled_indices
    /\ targets = [i \in Indices |-> i % 2]
    /\ TestDatasetInit
    /\ pc = "loop"
    /\ rounds = 0
    /\ initial = [labeled_indices |-> labeled_indices, unlabeled_indices |-> unlabeled_indices]
    /\ round_log = NoLog
    /\ MeterInit
    /\ NTXentIdle
    /\ AccuracyIdle
    /\ CifarIdle

Next ==
    \/ PerformSamplingActive
    \/ PerformSamplingSemi
    \/ PerformSamplingRandom
    \/ PerformSamplingRandomRaises

Spec == Init /\ [][Next]_vars

\* ======================================================================
\* AverageMeter
\* ======================================================================
Abs(x) == IF x < 0 THEN -x ELSE x

RECURSIVE Gcd(_, _)
Gcd(a, b) == IF b = 0 THEN a ELSE Gcd(b, a % b)

\* The quotient a / b (b > 0) of Python's true division, kept exact as a fraction
\* in lowest terms.
Quotient(a, b) ==
    LET g == Gcd(Abs(a), b)
    IN  [num |-> a \div g, den |-> b \div g]

Zero == [num |-> 0, den |-> 1]

\* __init__ and reset: val = avg = sum = count = 0
MeterZero == [val |-> 0, avg |-> Zero, sum |-> 0, count |-> 0]

AverageMeter_reset_keeps_sum(m) == [MeterZero EXCEPT !.sum = m.sum]

AverageMeter_reset(m) == MeterZero

AverageMeter_update_ignores_n(m, val, n) ==
    LET sum == m.sum + val
        count == m.count + n
    IN  [val |-> val, sum |-> sum, count |-> count, avg |-> Quotient(sum, count)]

\* self.val = val; self.sum += val * n; self.count += n; self.avg = self.sum / self.count
AverageMeter_update(m, val, n) ==
    LET sum == m.sum + val * n
        count == m.count + n
    IN  [val |-> val, sum |-> sum, count |-> count, avg |-> Quotient(sum, count)]

MeterUpdate ==
    /\ Len(meter_hist) < MaxUpdates
    /\ \E val \in (-1) .. MaxVal, n \in 1 .. MaxN :
          /\ meter' = AverageMeter_update(meter, val, n)
          /\ meter_hist' = Append(meter_hist, [val |-> val, n |-> n])
    /\ UNCHANGED <<sampling_vars, ntx_vars, acc_vars, cifar_vars>>

MeterReset ==
    /\ meter' = AverageMeter_reset(meter)
    /\ meter_hist' = <<>>
    /\ UNCHANGED <<sampling_vars, ntx_vars, acc_vars, cifar_vars>>

\* The label-budget loop at rest: one fixed split, no round taken.
SamplingIdle ==
    /\ strategy = "active_learning"
    /\ add_labeled_num = 0
    /\ labeled_indices = <<>>
    /\ unlabeled_indices = <<>>
    /\ labeled_dataset_indices = <<>>
    /\ unlabeled_dataset_indices = <<>>
    /\ targets = [i \in Indices |-> i % 2]
    /\ TestDatasetInit
    /\ pc = "loop"
    /\ rounds = 0
    /\ initial = [labeled_indices |-> <<>>, unlabeled_indices |-> <<>>]
    /\ round_log = NoLog

InitMeter == SamplingIdle /\ MeterInit /\ NTXentIdle /\ AccuracyIdle /\ CifarIdle

NextMeter == MeterUpdate \/ MeterReset

SpecMeter == InitMeter /\ [][NextMeter]_vars

\* ======================================================================
\* NTXent
\* ======================================================================
\* Matrices are functions over 0-based rows and columns.
Ones(n) == [r \in 0 .. (n - 1) |-> [c \in 0 .. (n - 1) |-> TRUE]]

\* mask.fill_diagonal_(0)
fill_diagonal_(m) == [r \in DOMAIN m |-> [c \in DOMAIN m[r] |-> IF r = c THEN FALSE ELSE m[r][c]]]

SetEntry(m, r, c, v) == [m EXCEPT ![r][c] = v]

mask_correlated_samples_one_sided(batch_size) ==
    LET F[i \in 0 .. batch_size] ==
            IF i = 0 THEN fill_diagonal_(Ones(batch_size * 2))
            ELSE SetEntry(F[i - 1], i - 1, batch_size + (i - 1), FALSE)
    IN  F[batch_size]

\* mask = ones(2N, 2N); fill_diagonal_(0);
\* for i in range(N): mask[i, N + i] = 0; mask[N + i, i] = 0
mask_correlated_samples(batch_size) ==
    LET F[i \in 0 .. batch_size] ==
            IF i = 0 THEN fill_diagonal_(Ones(batch_size * 2))
            ELSE SetEntry(SetEntry(F[i - 1], i - 1, batch_size + (i - 1), FALSE),
                          batch_size + (i - 1), i - 1, FALSE)
    IN  F[batch_size]

\* The (row, column) places a boolean mask selects, in row-major order: the order
\* in which sim[mask] lists its entries.
MaskedPlaces(m) ==
    LET n == Cardinality(DOMAIN m)
        InRow(r) ==
            LET G[c \in 0 .. n] ==
                    IF c = 0 THEN <<>>
                    ELSE IF m[r][c - 1] THEN Append(G[c - 1], <<r, c - 1>>) ELSE G[c - 1]
            IN  G[n]
        F[r \in 0 .. n] == IF r = 0 THEN <<>> ELSE F[r - 1] \o InRow(r - 1)
    IN  F[n]

\* flat.reshape(rows, -1) for rows > 0: fails unless rows divides len(flat);
\* row r of the result is the r-th run of len(flat) / rows entries.
Reshape(flat, rows) ==
    IF Len(flat) % rows # 0 THEN [raises |-> TRUE, rows |-> <<>>]
    ELSE LET cols == Len(flat) \div rows
         IN  [raises |-> FALSE,
              rows |-> [r \in 0 .. (rows - 1) |-> SubSeq(flat, r * cols + 1, (r + 1) * cols)]]

\* torch.diag(sim, k): the places of the k-th diagonal, top to bottom.
DiagPlaces(n, k) ==
    IF k >= 0 THEN [i \in 1 .. (n - k) |-> <<i - 1, i - 1 + k>>]
    ELSE [i \in 1 .. (n + k) |-> <<i - 1 - k, i - 1>>]

\* Cosine similarity of the unit basis vectors e_a and e_b, at temperature 1.
similarity_f(a, b) == IF a = b THEN 1 ELSE 0

\* forward(z_i, z_j) up to the logits; z is cat((z_i, z_j)), row r holding e_(z[r]).
NTXent_forward(batch_size, mask, z) ==
    LET n == batch_size * 2
        sim == [r \in 0 .. (n - 1) |-> [c \in 0 .. (n - 1) |-> similarity_f(z[r], z[c])]]
        At(place) == sim[place[1]][place[2]]
        positive_places == DiagPlaces(n, batch_size) \o DiagPlaces(n, -batch_size)
        negative == Reshape(MaskedPlaces(mask), n)
    IN  IF negative.raises THEN [outcome |-> "raised", z |-> z]
        ELSE [outcome |-> "returned", z |-> z,
              positive_places |-> [r \in 0 .. (n - 1) |-> positive_places[r + 1]],
              positive_samples |-> [r \in 0 .. (n - 1) |-> At(positive_places[r + 1])],
              negative_places |-> negative.rows,
              negative_samples |-> [r \in 0 .. (n - 1) |->
                                       [k \in DOMAIN negative.rows[r] |-> At(negative.rows[r][k])]]]

NTXentConstruct ==
    /\ ntx.pc = "new"
    /\ \E batch_size \in 1 .. MaxBatch :
          ntx' = [pc |-> "ready", batch_size |-> batch_size,
                  mask |-> mask_correlated_samples(batch_size)]
    /\ UNCHANGED <<forward_out, sampling_vars, meter_vars, acc_vars, cifar_vars>>

\* One forward call is followed per module.
NTXentForward ==
    /\ ntx.pc = "ready"
    /\ forward_out.outcome = "none"
    /\ \E z \in [0 .. (ntx.batch_size * 2 - 1) -> 0 .. (EmbDim - 1)] :
          forward_out' = NTXent_forward(ntx.batch_size, ntx.mask, z)
    /\ UNCHANGED <<ntx, sampling_vars, meter_vars, acc_vars, cifar_vars>>

InitNTXent == SamplingIdle /\ MeterInit /\ NTXentIdle /\ AccuracyIdle /\ CifarIdle

NextNTXent == NTXentConstruct \/ NTXentForward

SpecNTXent == InitNTXent /\ [][NextNTXent]_vars

\* ======================================================================
\* accuracy
\* ======================================================================
\* Three classes: the score matrix has three columns.
AccClassSet == {0, 1, 2}
\* Two score levels, so that rows with ties occur.
Scores == {0, 1}
BatchSizes == {1, 2}

Max(S) == CHOOSE x \in S : \A y \in S : y <= x

\* row.topk(k, largest=True, sorted=True): the indices of k largest scores, by
\* descending score.  Which of several equal scores comes first, or is left out,
\* is not specified: every choice is a possible outcome.
topk_outcomes(row, k) ==
    {p \in [1 .. k -> AccClassSet] :
        /\ IsInjective(p)
        /\ \A i \in 1 .. (k - 1) : row[p[i]] >= row[p[i + 1]]
        /\ \A c \in AccClassSet \ Range(p) : \A i \in 1 .. k : row[c] <= row[p[i]]}

\* _, pred = output.topk(maxk, 1, True, True): one outcome of topk per sample.
pred_outcomes(output, maxk) ==
    LET per_sample == [s \in DOMAIN output |-> topk_outcomes(output[s], maxk)]
    IN  {p \in [DOMAIN output -> UNION {per_sample[s] : s \in DOMAIN output}] :
            \A s \in DOMAIN output : p[s] \in per_sample[s]}

\* correct = pred.t().eq(target.view(1, -1).expand_as(pred)): correct[r][s] says
\* whether the r-th ranked class of sample s is its target.
Correct(pred, target, maxk) ==
    [r \in 1 .. maxk |-> [s \in DOMAIN target |-> pred[s][r] = target[s]]]

CountTrue(correct, rows) ==
    Cardinality({rs \in rows \X DOMAIN correct[1] : correct[rs[1]][rs[2]]})

\* The memory layout of `correct` depends on the torch build.  pred.t() is a
\* transposed view (strides (1, maxk)); eq either allocates its result contiguous
\* (torch <= 1.6) or gives it the strides of pred (torch >= 1.7).
Layouts == {"contiguous", "strided"}

\* x.view(-1) of a rows x cols slice of `correct`: a strided slice can be
\* flattened without a copy only when one of its dimensions has size 1; otherwise
\* view raises RuntimeError.
ViewRaises(layout, rows, cols) == layout = "strided" /\ rows >= 2 /\ cols >= 2

\* correct[:k].view(-1).float().sum(0)
correct_k(correct, k, layout) ==
    [raises |-> ViewRaises(layout, k, Cardinality(DOMAIN correct[1])),
     value  |-> CountTrue(correct, 1 .. k)]

\* correct_k.mul_(100.0 / batch_size), kept exact
Scaled(count, batch_size) ==
    LET scale == Quotient(100, batch_size)
    IN  Quotient(count * scale.num, scale.den)

\* The loop over topk stops at the first k whose view raises: the exception
\* leaves accuracy and nothing is returned.
accuracy(pred, target, topk, layout) ==
    LET maxk == Max(Range(topk))
        batch_size == Len(target)
        correct == Correct(pred, target, maxk)
    IN  IF \E i \in DOMAIN topk : correct_k(correct, topk[i], layout).raises
        THEN [outcome |-> "raised"]
        ELSE [outcome |-> "returned",
              res |-> [i \in DOMAIN topk |->
                         Scaled(correct_k(correct, topk[i], layout).value, batch_size)]]

AccuracyCall ==
    /\ acc_out.outcome = "none"
    /\ acc_in.topk # <<>>
    /\ \E pred \in pred_outcomes(acc_in.output, Max(Range(acc_in.topk))) :
          LET result == accuracy(pred, acc_in.target, acc_in.topk, acc_in.layout)
          IN  /\ result.outcome = "returned"
              /\ acc_out' = [outcome |-> "returned", pred |-> pred, res |-> result.res]
    /\ UNCHANGED <<acc_in, sampling_vars, meter_vars, ntx_vars, cifar_vars>>

\* The RuntimeError of view is not caught in accuracy.
AccuracyCallRaises ==
    /\ acc_out.outcome = "none"
    /\ acc_in.topk # <<>>
    /\ \E pred \in pred_outcomes(acc_in.output, Max(Range(acc_in.topk))) :
          accuracy(pred, acc_in.target, acc_in.topk, acc_in.layout).outcome = "raised"
    /\ acc_out' = [outcome |-> "raised"]
    /\ UNCHANGED <<acc_in, sampling_vars, meter_vars, ntx_vars, cifar_vars>>

\* One batch: a score row and a target per sample, the ranks k asked for, and
\* the layout the build gives `correct`.
InitAccuracy ==
    /\ SamplingIdle /\ MeterInit /\ NTXentIdle /\ CifarIdle
    /\ \E batch_size \in BatchSizes :
          acc_in \in [output : [1 .. batch_size -> [AccClassSet -> Scores]],
                      target : [1 .. batch_size -> AccClassSet],
                      topk   : SeqsUpTo(1 .. MaxK, 2) \ {<<>>},
                      layout : Layouts]
    /\ acc_out = NoAccuracy

NextAccuracy == AccuracyCall \/ AccuracyCallRaises

SpecAccuracy == InitAccuracy /\ [][NextAccuracy]_vars

\* ======================================================================
\* Cifar10Dataset
\* ======================================================================
\* self.remove_classes = np.array([0, 1, 2])
remove_classes == {0, 1, 2}

\* Classes met in the base dataset: removed ones and kept ones.
CifarClasses == {0, 2, 3, 9}

\* labeled_ratio and add_labeled_ratio, as exact fractions (quarters are exact
\* in binary floating point too).
Ratios == {[num |-> 1, den |-> 4], [num |-> 1, den |-> 2], [num |-> 3, den |-> 4]}

\* int(n * ratio) for n, ratio >= 0
IntOfProduct(n, ratio) == (n * ratio.num) \div ratio.den

\* ceil(n * ratio) for n, ratio >= 0
CeilOfProduct(n, ratio) == (n * ratio.num + ratio.den - 1) \div ratio.den

OneMinus(ratio) == [num |-> ratio.den - ratio.num, den |-> ratio.den]

\* train_test_split(np.arange(n), test_size=test_size, shuffle=True, stratify=None):
\* n_test = ceil(test_size * n), n_train = n - n_test; an empty train set is a
\* ValueError.  Otherwise a permutation of 0..n-1 is cut: any split into a test
\* array of n_test and a train array of n_train indices is a possible outcome.
train_test_split(n, test_size) ==
    LET n_test == CeilOfProduct(n, test_size)
        n_train == n - n_test
    IN  [raises   |-> n_train <= 0,
         outcomes |-> IF n_train <= 0 THEN {}
                      ELSE {[train |-> SubSeq(perm, n_test + 1, n),
                             test  |-> SubSeq(perm, 1, n_test)] :
                               perm \in {s \in [1 .. n -> 0 .. (n - 1)] : IsInjective(s)}}]

remove_filter_on_kept(indices, base_targets) ==
    BooleanIndex(indices, [i \in DOMAIN indices |-> base_targets[indices[i]] \in remove_classes])

\* targets = np.array(base_dataset.targets)[labeled_indices]
\* labeled_indices[~np.isin(targets, self.remove_classes)]
remove_filter(indices, base_targets) ==
    BooleanIndex(indices, [i \in DOMAIN indices |-> base_targets[indices[i]] \notin remove_classes])

GetDataset ==
    /\ cifar_out.outcome = "none"
    /\ LET n == NumSamples
           split == train_test_split(n, OneMinus(cifar_in.labeled_ratio))
       IN  /\ ~split.raises
           /\ \E s \in split.outcomes :
                 cifar_out' = [outcome |-> "returned",
                               add_labeled_num |-> IntOfProduct(n, cifar_in.add_labeled_ratio),
                               split |-> s,
                               labeled_indices |-> remove_filter(s.train, cifar_in.targets),
                               unlabeled_indices |-> s.test]
    /\ UNCHANGED <<cifar_in, sampling_vars, meter_vars, ntx_vars, acc_vars>>

\* add_labeled_num is assigned before the split is attempted.
GetDatasetRaises ==
    /\ cifar_out.outcome = "none"
    /\ train_test_split(NumSamples, OneMinus(cifar_in.labeled_ratio)).raises
    /\ cifar_out' = [outcome |-> "raised",
                     add_labeled_num |-> IntOfProduct(NumSamples, cifar_in.add_labeled_ratio)]
    /\ UNCHANGED <<cifar_in, sampling_vars, meter_vars, ntx_vars, acc_vars>>

\* A base dataset of NumSamples samples with any targets, and the two ratios.
InitCifar ==
    /\ SamplingIdle /\ MeterInit /\ NTXentIdle /\ AccuracyIdle
    /\ cifar_in \in [targets : [Samples -> CifarClasses],
                     labeled_ratio : Ratios,
                     add_labeled_ratio : Ratios]
    /\ cifar_out = NoDataset

NextCifar == GetDataset \/ GetDatasetRaises

SpecCifar == InitCifar /\ [][NextCifar]_vars

\* ======================================================================
\* Properties of the label-budget loop (specification Spec)
\* ======================================================================
RoundReturned == round_log.outcome = "returned"

\* The round got its samples from the sampler and called postprocess_indices.
PostprocessCalled ==
    round_log.outcome \in {"returned", "raised_in_create_loaders",
                           "raised_in_postprocess_indices"}

\* The samples at the positions the sampler returned, read in the pre-round array.
Chosen == {round_log.unlabeled_before[round_log.samples_indices[i] + 1] :
              i \in DOMAIN round_log.samples_indices}

\* The index of x in the duplicate-free array arr.
PosIn(arr, x) == CHOOSE i \in DOMAIN arr : arr[i] = x

\* C1 (as claimed): after any number of perform_sampling rounds, under every
\* strategy and every in-range sampler output, labeled_indices and
\* unlabeled_indices stay disjoint and duplicate-free, their union is the set the
\* run started with, and every sample chosen in a round has left
\* unlabeled_indices and is in labeled_indices.
C1_PartitionPreserved ==
    /\ IsInjective(labeled_indices \o unlabeled_indices)
    /\ Range(labeled_indices) \cup Range(unlabeled_indices)
          = Range(initial.labeled_indices) \cup Range(initial.unlabeled_indices)
    /\ PostprocessCalled =>
          \A x \in Chosen : x \notin Range(unlabeled_indices) /\ x \in Range(labeled_indices)

\* C2 (as claimed): after a semi_supervised round every sample the round added to
\* labeled_indices carries, in labeled_dataset.targets, a label the pseudo-labeler
\* predicted for its position, and the target of every other sample is unchanged.
C2_PseudoLabelsOnAddedSamples ==
    (RoundReturned /\ Branch(strategy) = "semi_supervised") =>
        /\ \A i \in DOMAIN round_log.samples_indices :
              LET p == round_log.samples_indices[i]
                  x == round_log.unlabeled_before[p + 1]
              IN  targets[x] \in {round_log.samples_targets[k] :
                                     k \in {m \in DOMAIN round_log.samples_indices :
                                               round_log.samples_indices[m] = p}}
        /\ \A x \in Indices \ Chosen : targets[x] = round_log.targets_before[x]

\* C3: each round consults exactly one selection strategy, the one
\* args.weak_supervision_strategy names: active_learning -> uncertainty_sampler
\* with the current model, semi_supervised -> pseudo_labeler with best_model,
\* anything else -> stratified_random_sampling; the number asked for is
\* dataset_class.add_labeled_num.
C3_OneStrategyConsulted ==
    round_log.outcome # "none" =>
        /\ Len(round_log.calls) = 1
        /\ round_log.calls[1].number = add_labeled_num
        /\ strategy = "active_learning" =>
              /\ round_log.calls[1].sampler = "uncertainty_sampler"
              /\ round_log.calls[1].model = "model"
        /\ strategy = "semi_supervised" =>
              /\ round_log.calls[1].sampler = "pseudo_labeler"
              /\ round_log.calls[1].model = "best_model"
        /\ strategy \notin {"active_learning", "semi_supervised"} =>
              round_log.calls[1].sampler = "stratified_random_sampling"

\* The second returned round of a strategy value that is neither of the two
\* named ones, started from non-empty arrays.
C3_Witness ==
    /\ RoundReturned
    /\ strategy = "fully_supervised"
    /\ rounds = 2
    /\ round_log.calls[1].number = 1
    /\ Len(initial.labeled_indices) >= 1
    /\ Len(unlabeled_indices) >= 1

\* C4 (as claimed): in an active_learning round the samples moved from
\* unlabeled_indices to labeled_indices are exactly those at the positions the
\* uncertainty sampler returned, and targets are left unchanged; targets are
\* never written outside the semi_supervised strategy.
C4_ActiveMovesChosenOnly ==
    /\ (PostprocessCalled /\ strategy = "active_learning") =>
          /\ Range(labeled_indices) \ Range(round_log.labeled_before) = Chosen
          /\ Range(round_log.unlabeled_before) \ Range(unlabeled_indices) = Chosen
          /\ targets = round_log.targets_before
    /\ strategy # "semi_supervised" => targets = [i \in Indices |-> i % 2]

\* C5: under the random strategy, when add_labeled_num exceeds the number of
\* unlabeled samples left, the round does not return: the sampling call fails, the
\* failure reaches the caller, and labeled_dataset.indices,
\* unlabeled_dataset.indices and labeled_dataset.targets are as before the call.
C5_RandomOverdrawRaises ==
    (/\ Branch(strategy) = "random"
     /\ round_log.outcome # "none"
     /\ add_labeled_num > Len(round_log.unlabeled_before)) =>
        /\ round_log.outcome = "raised"
        /\ pc = "raised"
        /\ rounds = round_log.rounds_before
        /\ labeled_dataset_indices = round_log.labeled_dataset_before
        /\ unlabeled_dataset_indices = round_log.unlabeled_dataset_before
        /\ labeled_indices = round_log.labeled_before
        /\ unlabeled_indices = round_log.unlabeled_before
        /\ targets = round_log.targets_before

\* A returned round left one unlabeled sample; the next round asks for two and
\* the draw raises.
C5_Witness ==
    /\ Branch(strategy) = "random"
    /\ round_log.outcome = "raised"
    /\ pc = "raised"
    /\ rounds = 1
    /\ Len(unlabeled_indices) = 1
    /\ add_labeled_num = 2
    /\ Len(initial.labeled_indices) >= 1

\* C6: under the random strategy a successful round draws exactly
\* add_labeled_num pairwise-distinct positions of unlabeled_indices, so after k
\* successful rounds len(labeled_indices) = L0 + k * add_labeled_num and
\* len(unlabeled_indices) = U0 - k * add_labeled_num.
C6_RandomGrowth ==
    Branch(strategy) = "random" =>
        /\ RoundReturned =>
              /\ Len(round_log.samples_indices) = add_labeled_num
              /\ IsInjective(round_log.samples_indices)
              /\ \A i \in DOMAIN round_log.samples_indices :
                    round_log.samples_indices[i] \in 0 .. (Len(round_log.unlabeled_before) - 1)
        /\ Len(labeled_indices) = Len(initial.labeled_indices) + rounds * add_labeled_num
        /\ Len(unlabeled_indices) = Len(initial.unlabeled_indices) - rounds * add_labeled_num

\* Two successful rounds that each moved a sample, started from non-empty arrays.
C6_Witness ==
    /\ Branch(strategy) = "random"
    /\ rounds = 2
    /\ RoundReturned
    /\ add_labeled_num >= 1
    /\ Len(initial.labeled_indices) >= 1
    /\ Len(labeled_indices) = Len(initial.labeled_indices) + 2
    /\ Len(unlabeled_indices) >= 1

\* C10 (as claimed): postprocess_indices returns, for every in-range
\* samples_indices: the old labeled_indices is a prefix of the new one, the moved
\* samples follow in ascending order of their position in unlabeled_indices
\* (whatever order the sampler gave), the samples left in unlabeled_indices keep
\* their relative order, and a repeated position is moved once: the number moved
\* is the number of distinct positions in samples_indices.
C10_PostprocessOrder ==
    PostprocessCalled =>
        /\ round_log.outcome # "raised_in_postprocess_indices"
        /\ LET before == round_log.labeled_before
               ubefore == round_log.unlabeled_before
               after == round_log.labeled_after
               uafter == round_log.unlabeled_after
               n == Len(after) - Len(before)
               moved == SubSeq(after, Len(before) + 1, Len(after))
           IN  /\ n >= 0
               /\ SubSeq(after, 1, Len(before)) = before
               /\ Range(moved) = Chosen
               /\ \A a, b \in 1 .. n :
                     a < b => PosIn(ubefore, moved[a]) < PosIn(ubefore, moved[b])
               /\ \A a, b \in DOMAIN uafter :
                     a < b => PosIn(ubefore, uafter[a]) < PosIn(ubefore, uafter[b])
               /\ n = Cardinality(Range(round_log.samples_indices))
               /\ Len(uafter) = Len(ubefore) - n
               /\ RoundReturned => labeled_indices = after /\ unlabeled_indices = uafter

\* C11: whenever perform_sampling returns, under every strategy,
\* labeled_dataset.indices is the returned labeled_indices and
\* unlabeled_dataset.indices is the returned unlabeled_indices, the returned
\* loaders read labeled_dataset, unlabeled_dataset and test_dataset, and
\* test_dataset is as it was before the round.
C11_LoadersReadUpdatedSets ==
    RoundReturned =>
        /\ labeled_dataset_indices = labeled_indices
        /\ unlabeled_dataset_indices = unlabeled_indices
        /\ loaders.train_loader = "labeled_dataset"
        /\ loaders.unlabeled_loader = "unlabeled_dataset"
        /\ loaders.val_loader = "test_dataset"
        /\ test_dataset = round_log.test_dataset_before
        /\ test_dataset = <<0, 1>>

\* A second round that moved samples, under the semi_supervised strategy, started
\* from non-empty arrays.
C11_Witness ==
    /\ RoundReturned
    /\ rounds = 2
    /\ strategy = "semi_supervised"
    /\ Chosen # {}
    /\ unlabeled_dataset_indices # round_log.unlabeled_dataset_before
    /\ Len(unlabeled_dataset_indices) >= 1
    /\ Len(initial.labeled_indices) >= 1

\* ======================================================================
\* Properties of AverageMeter (specification SpecMeter)
\* ======================================================================
SumOver(h, f(_)) ==
    LET F[i \in 0 .. Len(h)] == IF i = 0 THEN 0 ELSE F[i - 1] + f(h[i])
    IN  F[Len(h)]

WeightOf(u) == u.n
WeightedValOf(u) == u.val * u.n

\* C8: after a non-empty sequence of update(val, n) calls (n >= 1) since
\* construction or the last reset, count is the sum of the n's, sum is the sum of
\* val * n, val is the last val and avg * count = sum; with no update since
\* construction or reset, val, avg, sum and count are all 0.
C8_MeterTotals ==
    /\ meter_hist = <<>> =>
          meter.val = 0 /\ meter.avg = Zero /\ meter.sum = 0 /\ meter.count = 0
    /\ meter_hist # <<>> =>
          /\ meter.count = SumOver(meter_hist, WeightOf)
          /\ meter.sum = SumOver(meter_hist, WeightedValOf)
          /\ meter.val = meter_hist[Len(meter_hist)].val
          /\ meter.avg.den > 0
          /\ meter.avg.num * meter.count = meter.sum * meter.avg.den

C8_Witness ==
    /\ Len(meter_hist) = 3
    /\ meter_hist[1].n = 2
    /\ meter_hist[1].val # meter_hist[2].val
    /\ meter.avg.den = 3
    /\ meter.count = 6

\* ======================================================================
\* Properties of NTXent (specification SpecNTXent)
\* ======================================================================
Correlated(r, c, n) == r = c \/ c = r + n \/ r = c + n

\* C7: for every batch size N >= 1 the mask is a 2N x 2N boolean matrix, False
\* exactly on the diagonal and on the positive pairs (i, i+N), (i+N, i), symmetric,
\* with 2N-2 True entries in every row; the negatives forward selects with it form
\* a 2N x (2N-2) matrix whose row r holds entries of row r of sim, never the
\* positive of row r.
C7_MaskAndNegatives ==
    ntx.pc = "ready" =>
        LET n == ntx.batch_size
            rows == 0 .. (2 * n - 1)
        IN  /\ n >= 1
            /\ DOMAIN ntx.mask = rows
            /\ \A r \in rows : DOMAIN ntx.mask[r] = rows
            /\ \A r, c \in rows : ntx.mask[r][c] \in BOOLEAN
            /\ \A r, c \in rows : ntx.mask[r][c] = ~Correlated(r, c, n)
            /\ \A r, c \in rows : ntx.mask[r][c] = ntx.mask[c][r]
            /\ \A r \in rows : Cardinality({c \in rows : ntx.mask[r][c]}) = 2 * n - 2
            /\ forward_out.outcome # "none" =>
                  /\ forward_out.outcome = "returned"
                  /\ DOMAIN forward_out.negative_samples = rows
                  /\ \A r \in rows :
                        /\ Len(forward_out.negative_samples[r]) = 2 * n - 2
                        /\ forward_out.positive_places[r]
                              = <<r, IF r < n THEN r + n ELSE r - n>>
                        /\ \A k \in 1 .. (2 * n - 2) :
                              /\ forward_out.negative_places[r][k][1] = r
                              /\ forward_out.negative_places[r][k]
                                    # forward_out.positive_places[r]
                              /\ forward_out.negative_places[r][k] # <<r, r>>

C7_Witness ==
    /\ ntx.pc = "ready"
    /\ ntx.batch_size = 3
    /\ forward_out.outcome = "returned"
    /\ forward_out.positive_samples[4] = 1
    /\ forward_out.negative_samples[4] = <<0, 1, 0, 1>>

\* ======================================================================
\* Properties of accuracy (specification SpecAccuracy)
\* ======================================================================
\* The k classes ranked first for sample s.
TopClasses(s, k) == {acc_out.pred[s][i] : i \in 1 .. k}

Hits(k) == {s \in DOMAIN acc_in.target : acc_in.target[s] \in TopClasses(s, k)}

\* a <= b for fractions with positive denominators
FracLeq(a, b) == a.num * b.den <= b.num * a.den

\* C9: for every k in topk, accuracy returns 100 * (number of samples whose
\* target is among the sample's k highest-scored classes) / batch_size; every
\* value lies in 0..100, and top-k1 <= top-k2 whenever k1 <= k2.  A call
\* that raises returns nothing, so every finished call must have returned.
C9_TopKAccuracy ==
    acc_out.outcome # "none" =>
        /\ acc_out.outcome = "returned"
        /\ LET batch_size == Len(acc_in.target)
               topk == acc_in.topk
               res == acc_out.res
           IN  /\ DOMAIN res = DOMAIN topk
               /\ \A i \in DOMAIN topk :
                     /\ \A s \in DOMAIN acc_in.target :
                           Cardinality(TopClasses(s, topk[i])) = topk[i]
                     /\ \A s \in DOMAIN acc_in.target :
                        \A c \in TopClasses(s, topk[i]) :
                        \A d \in AccClassSet \ TopClasses(s, topk[i]) :
                           acc_in.output[s][c] >= acc_in.output[s][d]
                     /\ res[i].den > 0
                     /\ res[i].num * batch_size = 100 * Cardinality(Hits(topk[i])) * res[i].den
                     /\ FracLeq(Zero, res[i]) /\ FracLeq(res[i], [num |-> 100, den |-> 1])
               /\ \A i, j \in DOMAIN topk : topk[i] <= topk[j] => FracLeq(res[i], res[j])

\* ======================================================================
\* Properties of Cifar10Dataset (specification SpecCifar)
\* ======================================================================
\* The samples of the train part of the split whose class is removed.
Dropped == {x \in Range(cifar_out.split.train) : cifar_in.targets[x] \in remove_classes}

\* C12: get_dataset returns labeled_indices and unlabeled_indices that are
\* disjoint, duplicate-free subsets of the base indices; no labeled sample has a
\* target in remove_classes; unlabeled_indices is the whole test part of the split,
\* whatever the classes; the samples dropped from the labeled split are in neither
\* array, and together with the two arrays they make up the base dataset;
\* add_labeled_num = int(len(base_dataset) * add_labeled_ratio).
C12_GetDatasetSplit ==
    /\ cifar_out.outcome # "none" =>
          cifar_out.add_labeled_num
             = (NumSamples * cifar_in.add_labeled_ratio.num) \div cifar_in.add_labeled_ratio.den
    /\ cifar_out.outcome = "returned" =>
          LET L == cifar_out.labeled_indices
              U == cifar_out.unlabeled_indices
          IN  /\ IsInjective(L \o U)
              /\ Range(L) \subseteq Samples /\ Range(U) \subseteq Samples
              /\ \A x \in Range(L) : cifar_in.targets[x] \notin remove_classes
              /\ U = cifar_out.split.test
              /\ Len(U) = NumSamples - Len(cifar_out.split.train)
              /\ Dropped \cap (Range(L) \cup Range(U)) = {}
              /\ Range(L) \cup Range(U) \cup Dropped = Samples
              /\ Range(L) = Range(cifar_out.split.train) \ Dropped

\* A labeled sample is kept, another is dropped for its class, and the unlabeled
\* array holds a sample of a removed class: the two arrays miss part of the base.
C12_Witness ==
    /\ cifar_out.outcome = "returned"
    /\ Len(cifar_out.labeled_indices) = 1
    /\ Dropped # {}
    /\ \E x \in Range(cifar_out.unlabeled_indices) : cifar_in.targets[x] \in remove_classes
    /\ Range(cifar_out.labeled_indices) \cup Range(cifar_out.unlabeled_indices) # Samples
    /\ cifar_out.add_labeled_num = 2

====
